---- MODULE Spec2Model ----
(***************************************************************************)
(* The reports service of the_monkeys_reports: the gRPC servicer           *)
(* ReportsServiceServicer (main.py) over the reports and                   *)
(* user_reports_flags tables declared in models.py.                        *)
(*                                                                         *)
(* Each RPC handler runs on a worker of the server's thread pool and       *)
(* touches shared state only through one database transaction              *)
(* (session.add + session.commit), so a handler is one atomic step of the  *)
(* model and concurrent RPCs are the interleavings of these steps.         *)
(***************************************************************************)
EXTENDS Integers, Sequences, FiniteSets, TLC

(***************************************************************************)
(* Bounds of the model.                                                    *)
(***************************************************************************)
\* Rows the reports table holds at most; CreateReport is cut off beyond it.
MaxReports == 2

(***************************************************************************)
(* Python None / SQL NULL, and a present value.                            *)
(***************************************************************************)
None == <<>>
Some(v) == <<v>>
Val(o) == o[1]

(***************************************************************************)
(* The database the service connects to: rows of the reflected tables      *)
(* user_account and blog, which foreign keys of reports point to.          *)
(***************************************************************************)
UserAccounts == {1, 42}
Blogs == {7}

(***************************************************************************)
(* Request fields.  The handler passes reporter_id and reported_id through *)
(* int(), so they arrive as text: a sequence of characters.                *)
(***************************************************************************)
DigitVal ==
    ("0" :> 0) @@ ("1" :> 1) @@ ("2" :> 2) @@ ("3" :> 3) @@ ("4" :> 4) @@
    ("5" :> 5) @@ ("6" :> 6) @@ ("7" :> 7) @@ ("8" :> 8) @@ ("9" :> 9)

\* int(text) raises ValueError unless the text is a decimal numeral.
IntOk(s) == s # <<>> /\ \A i \in 1..Len(s) : s[i] \in DOMAIN DigitVal

RECURSIVE IntOf(_)
\* int(text) for a decimal numeral: leading zeros are dropped ("07" is 7).
IntOf(s) ==
    IF s = <<>> THEN 0
    ELSE IntOf(SubSeq(s, 1, Len(s) - 1)) * 10 + DigitVal[s[Len(s)]]

ReporterIdTexts == {<<"1">>, <<"9">>}
ReportedIdTexts == {<<"1">>, <<"4", "2">>, <<"0", "7">>, <<"x">>}
ReportedTypeTexts == {"BLOG", "USER", "COMMENT"}
ReasonTypeTexts == {"SPAM", "BOGUS"}
NotesTexts == {"notes"}

\* gw_report_pb2.CreateReportRequest
CreateReportRequests ==
    [reporter_id : ReporterIdTexts, reason_type : ReasonTypeTexts,
     reporter_notes : NotesTexts, reported_type : ReportedTypeTexts,
     reported_id : ReportedIdTexts]

\* The request of FlagReport: a flagging user and a report id, which may
\* name a report that does not exist.
FlagReportRequests == [user_id : {42}, report_id : 1..(MaxReports + 1)]

(***************************************************************************)
(* State.                                                                  *)
(***************************************************************************)
VARIABLES
    reports,          \* the reports table: a sequence of rows, row i has report_id i
    flags,            \* the user_reports_flags table: a set of <<user_id, report_id>>
    notNullEnforced,  \* whether the deployed reports table has the NOT NULL that
                      \* Mapped[T] columns without nullable=True declare; the
                      \* service never creates the table itself
    flagCalls,        \* the <<user_id, report_id>> pairs FlagReport has been called
                      \* with while the report existed
    claimants,        \* the <<moderator_id, report_id>> pairs ClaimReport answered OK
    last              \* the RPC that completed last: what it was given, what it
                      \* did to the store and what it returned

vars == <<reports, flags, notNullEnforced, flagCalls, claimants, last>>

NoCall ==
    [op |-> "none", req |-> <<>>, result |-> "none", resp |-> None,
     inserts |-> 0, before |-> <<>>, repeat |-> FALSE]

Init ==
    /\ reports = <<>>
    /\ flags = {}
    /\ notNullEnforced \in BOOLEAN
    /\ flagCalls = {}
    /\ claimants = {}
    /\ last = NoCall

(***************************************************************************)
(* CreateReport, main.py lines 36-65.                                      *)
(***************************************************************************)
\* Lines 39-49 with reported_blog_id and reported_user_id swapped: a BLOG
\* report fills reported_user_id.
ReportBodySwapped(req) ==
    [reporter_id |-> IntOf(req.reporter_id),
     reason_type |-> req.reason_type,
     reporter_notes |-> req.reporter_notes,
     reported_type |-> req.reported_type]
    @@ (IF req.reported_type = "BLOG"
        THEN ("reported_user_id" :> IntOf(req.reported_id))
        ELSE ("reported_blog_id" :> IntOf(req.reported_id)))

\* Lines 39-49: the dict report_body; only one of the two reported_*_id keys
\* is present, and every reported_type other than "BLOG" takes the else branch.
ReportBody(req) ==
    [reporter_id |-> IntOf(req.reporter_id),
     reason_type |-> req.reason_type,
     reporter_notes |-> req.reporter_notes,
     reported_type |-> req.reported_type]
    @@ (IF req.reported_type = "BLOG"
        THEN ("reported_blog_id" :> IntOf(req.reported_id))
        ELSE ("reported_user_id" :> IntOf(req.reported_id)))

\* An attribute of a mapped object built from keyword arguments: None when
\* the keyword was not given.
Attr(body, k) == IF k \in DOMAIN body THEN Some(body[k]) ELSE None

\* Line 51, models.Report(**report_body), as the row the flush sends: the
\* key is generated, flag_count takes its default 0, and every column that
\* was not given and has no default (status, moderator_id, moderator_notes,
\* verdict, the other reported_*_id) is sent as NULL.
Report(body, id) ==
    [report_id |-> id,
     reason_type |-> body.reason_type,
     flag_count |-> 0,
     reporter_id |-> body.reporter_id,
     reported_type |-> body.reported_type,
     reported_blog_id |-> Attr(body, "reported_blog_id"),
     reported_user_id |-> Attr(body, "reported_user_id"),
     status |-> Attr(body, "status"),
     reporter_notes |-> body.reporter_notes,
     moderator_id |-> Attr(body, "moderator_id"),
     moderator_notes |-> Attr(body, "moderator_notes"),
     verdict |-> Attr(body, "verdict")]

(***************************************************************************)
(* The reports table, models.py lines 29-54.                               *)
(***************************************************************************)
StatusValues == {"PENDING", "IN_PROGRESS", "RESOLVED"}
ReportedTypeValues == {"BLOG", "USER"}
ReasonTypeValues == {"SPAM", "ABUSE", "NSFW", "MISINFORMATION", "OTHER"}

\* Columns typed Mapped[T] without nullable=True that an insert can leave NULL.
NotNullColumns == {"status", "moderator_id", "moderator_notes", "verdict"}

\* The foreign keys: a NULL reference is not checked.
ForeignKeyViolations(row) ==
    {c \in {"reporter_id"} : row.reporter_id \notin UserAccounts}
    \cup {c \in {"reported_blog_id"} :
            row.reported_blog_id # None /\ Val(row.reported_blog_id) \notin Blogs}
    \cup {c \in {"reported_user_id"} :
            row.reported_user_id # None
            /\ Val(row.reported_user_id) \notin UserAccounts}
    \cup {c \in {"moderator_id"} :
            row.moderator_id # None /\ Val(row.moderator_id) \notin UserAccounts}

\* __table_args__: a CHECK whose column is NULL is not violated.  The text
\* of exactly_one_fk has an unbalanced parenthesis; it is read as written
\* without it: the number of non-NULL reported_*_id columns is 1.
CheckViolations(row) ==
    {c \in {"status_check"} :
        row.status # None /\ Val(row.status) \notin StatusValues}
    \cup {c \in {"reported_type_check"} :
            row.reported_type \notin ReportedTypeValues}
    \cup {c \in {"reason_type_check"} : row.reason_type \notin ReasonTypeValues}
    \cup {c \in {"exactly_one_fk"} :
            Cardinality({k \in {"reported_blog_id", "reported_user_id"} :
                            row[k] # None}) # 1}

NotNullViolations(row, strict) ==
    {c \in NotNullColumns : strict /\ row[c] = None}

\* Every constraint of the table the row violates.
Violations(row, strict) ==
    NotNullViolations(row, strict) \cup CheckViolations(row)
    \cup ForeignKeyViolations(row)

(***************************************************************************)
(* The responses of CreateReport.                                          *)
(***************************************************************************)
\* Line 59
IntegrityErrorResponse(text) ==
    [status |-> 0, message |-> "", error |-> text]

\* Line 62
SQLAlchemyErrorResponse(text) ==
    [status |-> 0, message |-> "", error |-> text]

\* Line 65
CreatedResponse ==
    [status |-> 1, message |-> "Created report successfully", error |-> ""]

\* The text of a database failure that is not a constraint violation.
OperationalErrorTexts == {"connection lost"}

Completed(op, req, result, resp, inserts, repeat) ==
    [op |-> op, req |-> req, result |-> result, resp |-> resp,
     inserts |-> inserts, before |-> reports, repeat |-> repeat]

\* The whole handler.  int() of a non-numeral raises ValueError, which no
\* except clause catches: the RPC ends without a response and nothing was
\* sent to the store.  Otherwise the row is added and committed once: the
\* commit fails with a database error other than a constraint violation, or
\* with IntegrityError when the row violates a constraint, or it succeeds.
CreateReport(req) ==
    /\ Len(reports) < MaxReports
    /\ UNCHANGED <<flags, notNullEnforced, flagCalls, claimants>>
    /\ IF ~(IntOk(req.reporter_id) /\ IntOk(req.reported_id))
       THEN /\ last' = Completed("CreateReport", req, "ValueError", None, 0, FALSE)
            /\ UNCHANGED reports
       ELSE LET new_report == Report(ReportBody(req), Len(reports) + 1)
                violated == Violations(new_report, notNullEnforced)
            IN \/ \E text \in OperationalErrorTexts :
                    /\ last' = Completed("CreateReport", req, "SQLAlchemyError",
                                         Some(SQLAlchemyErrorResponse(text)), 1, FALSE)
                    /\ UNCHANGED reports
               \/ /\ violated # {}
                  /\ \E text \in violated :
                        last' = Completed("CreateReport", req, "IntegrityError",
                                          Some(IntegrityErrorResponse(text)), 1, FALSE)
                  /\ UNCHANGED reports
               \/ /\ violated = {}
                  /\ reports' = Append(reports, new_report)
                  /\ last' = Completed("CreateReport", req, "ok",
                                       Some(CreatedResponse), 1, FALSE)

(***************************************************************************)
(* FlagReport, main.py lines 67-68.                                        *)
(***************************************************************************)
\* The body is `pass`: the handler returns None whatever the request, and
\* touches neither table.  flagCalls and last.repeat only record the call:
\* a call counts for its pair when the report it names exists.
FlagReport(req) ==
    /\ flagCalls' = flagCalls \cup
          {p \in {<<req.user_id, req.report_id>>} : req.report_id \in 1..Len(reports)}
    /\ last' = Completed("FlagReport", req, "None", None, 0,
                         <<req.user_id, req.report_id>> \in flagCalls)
    /\ UNCHANGED <<reports, flags, notNullEnforced, claimants>>

Next ==
    \/ \E req \in CreateReportRequests : CreateReport(req)
    \/ \E req \in FlagReportRequests : FlagReport(req)

Spec == Init /\ [][Next]_vars

(***************************************************************************)
(* The moderation workflow: ClaimReport and ResolveReport over the status, *)
(* moderator_id, moderator_notes and verdict columns that models.py lines  *)
(* 42-47 declare.  The servicer defines neither operation; both are taken  *)
(* from the workflow's description: each is one atomic                     *)
(* update-with-precondition of the store (a compare-and-swap on status).   *)
(***************************************************************************)
Moderators == UserAccounts
VerdictTexts == {"UPHELD", "DISMISSED"}
ModeratorNotesTexts == {"reviewed"}

ClaimReportRequests ==
    [moderator_id : Moderators, report_id : 1..(MaxReports + 1)]

ResolveReportRequests ==
    [moderator_id : Moderators, report_id : 1..(MaxReports + 1),
     verdict : VerdictTexts, notes : ModeratorNotesTexts]

\* ClaimReport overwriting the claimant of a report that is already claimed.
ClaimReportNoPrecondition(req) ==
    /\ UNCHANGED <<flags, notNullEnforced, flagCalls>>
    /\ IF req.report_id \notin 1..Len(reports)
       THEN /\ last' = Completed("ClaimReport", req, "NotFound", None, 0, FALSE)
            /\ UNCHANGED <<reports, claimants>>
       ELSE /\ reports' = [reports EXCEPT
                  ![req.report_id].status = Some("IN_PROGRESS"),
                  ![req.report_id].moderator_id = Some(req.moderator_id)]
            /\ claimants' = claimants \cup {<<req.moderator_id, req.report_id>>}
            /\ last' = Completed("ClaimReport", req, "OK", None, 0, FALSE)

\* ClaimReport(moderator_id, report_id) -> OK | AlreadyClaimed | NotFound:
\* PENDING -> IN_PROGRESS with the caller recorded as the claimant.
ClaimReport(req) ==
    /\ UNCHANGED <<flags, notNullEnforced, flagCalls>>
    /\ IF req.report_id \notin 1..Len(reports)
       THEN /\ last' = Completed("ClaimReport", req, "NotFound", None, 0, FALSE)
            /\ UNCHANGED <<reports, claimants>>
       ELSE IF reports[req.report_id].status = Some("PENDING")
       THEN /\ reports' = [reports EXCEPT
                  ![req.report_id].status = Some("IN_PROGRESS"),
                  ![req.report_id].moderator_id = Some(req.moderator_id)]
            /\ claimants' = claimants \cup {<<req.moderator_id, req.report_id>>}
            /\ last' = Completed("ClaimReport", req, "OK", None, 0, FALSE)
       ELSE /\ last' = Completed("ClaimReport", req, "AlreadyClaimed", None, 0, FALSE)
            /\ UNCHANGED <<reports, claimants>>

\* The update ResolveReport applies.
Resolved(row, req) ==
    [row EXCEPT !.status = Some("RESOLVED"),
                !.moderator_id = Some(req.moderator_id),
                !.moderator_notes = Some(req.notes),
                !.verdict = Some(req.verdict)]

\* ResolveReport checking who holds the report but not its status: a report
\* nobody has claimed yet is resolved straight from PENDING.
ResolveReportFromPending(req) ==
    /\ UNCHANGED <<flags, notNullEnforced, flagCalls, claimants>>
    /\ IF req.report_id \notin 1..Len(reports)
       THEN /\ last' = Completed("ResolveReport", req, "NotFound", None, 0, FALSE)
            /\ UNCHANGED reports
       ELSE IF /\ reports[req.report_id].status # Some("RESOLVED")
               /\ reports[req.report_id].moderator_id
                     \in {None, Some(req.moderator_id)}
       THEN /\ reports' = [reports EXCEPT
                  ![req.report_id] = Resolved(@, req)]
            /\ last' = Completed("ResolveReport", req, "OK", None, 0, FALSE)
       ELSE /\ last' = Completed("ResolveReport", req, "NotClaimedByCaller",
                                 None, 0, FALSE)
            /\ UNCHANGED reports

\* ResolveReport checking the status but not who claimed the report.
ResolveReportAnyModerator(req) ==
    /\ UNCHANGED <<flags, notNullEnforced, flagCalls, claimants>>
    /\ IF req.report_id \notin 1..Len(reports)
       THEN /\ last' = Completed("ResolveReport", req, "NotFound", None, 0, FALSE)
            /\ UNCHANGED reports
       ELSE IF reports[req.report_id].status = Some("IN_PROGRESS")
       THEN /\ reports' = [reports EXCEPT
                  ![req.report_id] = Resolved(@, req)]
            /\ last' = Completed("ResolveReport", req, "OK", None, 0, FALSE)
       ELSE /\ last' = Completed("ResolveReport", req, "NotClaimedByCaller",
                                 None, 0, FALSE)
            /\ UNCHANGED reports

\* ResolveReport(moderator_id, report_id, verdict, notes)
\*   -> OK | NotClaimedByCaller | NotFound:
\* IN_PROGRESS -> RESOLVED, only for the moderator who claimed the report.
ResolveReport(req) ==
    /\ UNCHANGED <<flags, notNullEnforced, flagCalls, claimants>>
    /\ IF req.report_id \notin 1..Len(reports)
       THEN /\ last' = Completed("ResolveReport", req, "NotFound", None, 0, FALSE)
            /\ UNCHANGED reports
       ELSE IF /\ reports[req.report_id].status = Some("IN_PROGRESS")
               /\ reports[req.report_id].moderator_id = Some(req.moderator_id)
       THEN /\ reports' = [reports EXCEPT
                  ![req.report_id] = Resolved(@, req)]
            /\ last' = Completed("ResolveReport", req, "OK", None, 0, FALSE)
       ELSE /\ last' = Completed("ResolveReport", req, "NotClaimedByCaller",
                                 None, 0, FALSE)
            /\ UNCHANGED reports

\* A report as the workflow receives it: the row CreateReport builds, in
\* the initial status PENDING of the data model.
PendingReport(id) ==
    [Report(ReportBody([reporter_id |-> <<"1">>, reason_type |-> "SPAM",
                        reporter_notes |-> "notes", reported_type |-> "BLOG",
                        reported_id |-> <<"0", "7">>]), id)
        EXCEPT !.status = Some("PENDING")]

WorkflowInit ==
    /\ reports = [i \in 1..MaxReports |-> PendingReport(i)]
    /\ flags = {}
    /\ notNullEnforced = FALSE
    /\ flagCalls = {}
    /\ claimants = {}
    /\ last = NoCall

WorkflowNext ==
    \/ \E req \in ClaimReportRequests : ClaimReport(req)
    \/ \E req \in ResolveReportRequests : ResolveReport(req)

SpecWorkflow == WorkflowInit /\ [][WorkflowNext]_vars

(***************************************************************************)
(* Helpers of the properties.                                              *)
(***************************************************************************)
ReportIds == 1..Len(reports)

\* The last call was a CreateReport whose two ids int() accepts, and the
\* database did not fail on it for a reason of its own.
LastCreateParsed ==
    /\ last.op = "CreateReport"
    /\ IntOk(last.req.reporter_id)
    /\ IntOk(last.req.reported_id)
    /\ last.result # "SQLAlchemyError"

\* The last call was turned away before anything was sent to the store.
LastRejectedBeforeStore ==
    /\ last.result # "ok"
    /\ last.inserts = 0
    /\ reports = last.before

\* What of a response tells its kind apart from the free text in error.
Discriminator(resp) == <<resp.status, resp.message>>

\* The rows of user_reports_flags for a report.
FlagsOf(id) == {f \in flags : f[2] = id}

(***************************************************************************)
(* C1.  Every stored report has exactly one of reported_blog_id and        *)
(* reported_user_id set, and the one set is the one reported_type names:   *)
(* BLOG sets reported_blog_id, USER sets reported_user_id.                 *)
(***************************************************************************)
C1_ExactlyOneReportedId ==
    \A i \in ReportIds :
        LET r == reports[i]
        IN /\ (r.reported_blog_id # None) # (r.reported_user_id # None)
           /\ r.reported_type \in ReportedTypeValues
           /\ r.reported_type = "BLOG" => r.reported_blog_id # None
           /\ r.reported_type = "USER" => r.reported_user_id # None

\* The store holds a BLOG report and a USER report.
C1_Witness ==
    /\ \E i \in ReportIds : reports[i].reported_type = "BLOG"
    /\ \E i \in ReportIds : reports[i].reported_type = "USER"

(***************************************************************************)
(* C2.  A CreateReport with reported_type USER whose reporter_id equals    *)
(* its reported_id is rejected as a validation error: it is turned away    *)
(* before the store and no report is added.                                *)
(***************************************************************************)
C2_SelfReportRejected ==
    (/\ LastCreateParsed
     /\ last.req.reported_type = "USER"
     /\ IntOf(last.req.reporter_id) = IntOf(last.req.reported_id))
    => LastRejectedBeforeStore

(***************************************************************************)
(* C3.  A CreateReport whose reported_type is neither BLOG nor USER is     *)
(* rejected before it reaches the store: no insert is attempted and the    *)
(* store is unchanged (the case where int() already fails aside).          *)
(***************************************************************************)
C3_UnknownTypeRejectedBeforeStore ==
    (/\ LastCreateParsed
     /\ last.req.reported_type \notin ReportedTypeValues)
    => LastRejectedBeforeStore

(***************************************************************************)
(* C4.  A (user, report) pair raises flag_count at most once, and every    *)
(* later FlagReport call for the pair returns AlreadyFlagged and leaves    *)
(* flag_count as it was.                                                   *)
(***************************************************************************)
C4_FlagAtMostOnce ==
    /\ \A i \in ReportIds :
          reports[i].flag_count <= Cardinality({p \in flagCalls : p[2] = i})
    /\ (last.op = "FlagReport" /\ last.repeat)
          => (last.result = "AlreadyFlagged" /\ reports = last.before)

C8_ConstraintViolationDistinct ==
    (last.op = "CreateReport" /\ last.result = "IntegrityError")
    => /\ last.inserts = 1
       /\ reports = last.before
       /\ last.resp # None
       /\ \A text \in OperationalErrorTexts :
             Discriminator(Val(last.resp))
                # Discriminator(SQLAlchemyErrorResponse(text))

(***************************************************************************)
(* C9.  A report a successful CreateReport stored has status PENDING and   *)
(* flag_count 0 and carries the submitted values: the reporter, the        *)
(* reason, the notes, the type, and the reported id in the column its type *)
(* names with the other column NULL.                                       *)
(***************************************************************************)
C9_CreatedReportFields ==
    (last.op = "CreateReport" /\ last.result = "ok")
    => LET r == reports[Len(reports)]
           id == IntOf(last.req.reported_id)
       IN /\ r.status = Some("PENDING")
          /\ r.flag_count = 0
          /\ r.reporter_id = IntOf(last.req.reporter_id)
          /\ r.reason_type = last.req.reason_type
          /\ r.reporter_notes = last.req.reporter_notes
          /\ r.reported_type = last.req.reported_type
          /\ r.reported_type = "BLOG"
                => (r.reported_blog_id = Some(id) /\ r.reported_user_id = None)
          /\ r.reported_type = "USER"
                => (r.reported_user_id = Some(id) /\ r.reported_blog_id = None)

(***************************************************************************)
(* C10.  FlagReport applies the flag_count increment and the insert of the *)
(* (user_id, report_id) row together: in every reachable state the         *)
(* flag_count of each report equals the number of user_reports_flags rows  *)
(* for it, and a FlagReport for a pair not seen before, on a report the    *)
(* store holds, has inserted the row and raised the count by one.          *)
(***************************************************************************)
C10_FlagAppliedAtomically ==
    /\ \A i \in ReportIds : reports[i].flag_count = Cardinality(FlagsOf(i))
    /\ (/\ last.op = "FlagReport"
        /\ ~last.repeat
        /\ last.req.report_id \in 1..Len(last.before))
          => /\ <<last.req.user_id, last.req.report_id>> \in flags
             /\ reports[last.req.report_id].flag_count
                   = last.before[last.req.report_id].flag_count + 1

====
